---- MODULE Spec2Model ----
(***************************************************************************)
(* Model of streaming-pipeline-core: the circular stream buffer            *)
(* (src/src/framework/CircularStreamBuffer.ts) and the processing loop of  *)
(* StreamingPipeline built on it (src/unnamed/part_001).                   *)
(***************************************************************************)
EXTENDS Integers, Sequences, FiniteSets, TLC

\* ---------------------------------------------------------------- bounds
\* largest lookBehind / lookAhead size a buffer is constructed with
MaxLookBehindSize == 2
MaxLookAheadSize == 2
\* longest data array handed to one fill call
MaxFill == 4
\* most bytes accepted by fill between two resets
MaxStream == 5
\* largest globalPos an advance starts from
MaxPos == 7
\* largest distance asked of lookAhead / lookBehind
MaxDistance == 3
\* most processors registered on a pipeline
MaxProcessors == 2
\* longest in-memory input (characters of a string, bytes of a blob)
MaxInput == 3
\* largest lookBehind / lookAhead size a pipeline is configured with
MaxConfigLookBehind == 1
MaxConfigLookAhead == 2
\* how far past the end of its input a processing loop is followed
MaxOverrun == 2
\* most outputs a processing loop is followed for
MaxOutputs == 6
\* most chunks a streamed source delivers, and the longest chunk
MaxChunks == 2
MaxChunkLen == 2

\* byte values used as data (a Uint8Array slot is 0 until written)
Byte == {0, 1}
\* characters of string inputs: U+0001 and U+00E9 (two bytes in UTF-8)
Char == {1, 233}
\* peek() returns null when the buffer holds nothing
Null == -1

Min(a, b) == IF a < b THEN a ELSE b
Max(a, b) == IF a > b THEN a ELSE b

\* all byte arrays of length 0..n
ByteArrays(n) == UNION {[1..k -> Byte] : k \in 0..n}

\* ------------------------------------------------- CircularStreamBuffer
\* a constructor that allocates no slot for the cursor byte
NewBuffer_NoCursorSlot(lookBehind, lookAhead) ==
  [buffer |-> [i \in 0..(lookBehind + lookAhead - 1) |-> 0],
   head |-> 0, tail |-> 0, current |-> 0, globalPos |-> 0,
   eof |-> FALSE, filled |-> 0,
   maxLookBehind |-> lookBehind, maxLookAhead |-> lookAhead]

\* constructor: totalSize = maxLookBehind + 1 + maxLookAhead, all fields 0
NewBuffer(lookBehind, lookAhead) ==
  [buffer |-> [i \in 0..(lookBehind + 1 + lookAhead - 1) |-> 0],
   head |-> 0, tail |-> 0, current |-> 0, globalPos |-> 0,
   eof |-> FALSE, filled |-> 0,
   maxLookBehind |-> lookBehind, maxLookAhead |-> lookAhead]

\* this.buffer.length
BufLen(b) == Cardinality(DOMAIN b.buffer)

getAvailableBehind(b) ==
  IF b.current >= b.tail
    THEN b.current - b.tail
    ELSE b.current + (BufLen(b) - b.tail)

getAvailableAhead(b) ==
  IF b.head > b.current
    THEN b.head - b.current - 1
    ELSE IF b.head < b.current
      THEN (BufLen(b) - b.current - 1) + b.head
      ELSE IF b.filled > 0 THEN BufLen(b) - 1 ELSE 0

peek(b) == IF b.filled = 0 THEN Null ELSE b.buffer[b.current]

lookBehind(b, distance) ==
  LET actualDistance == Min(distance, b.maxLookBehind)
      availableBehind == getAvailableBehind(b)
      lookDistance == Min(actualDistance, availableBehind)
      start == (b.current - lookDistance + BufLen(b)) % BufLen(b)
  IN  IF lookDistance = 0 THEN <<>>
      ELSE [i \in 1..lookDistance |-> b.buffer[(start + (i - 1)) % BufLen(b)]]

\* a lookAhead that does not clamp the distance to maxLookAhead
lookAhead_Unclamped(b, distance) ==
  LET availableAhead == getAvailableAhead(b)
      lookDistance == Min(distance, availableAhead)
  IN  IF lookDistance = 0 THEN <<>>
      ELSE [i \in 1..lookDistance |->
              b.buffer[(b.current + 1 + (i - 1)) % BufLen(b)]]

lookAhead(b, distance) ==
  LET actualDistance == Min(distance, b.maxLookAhead)
      availableAhead == getAvailableAhead(b)
      lookDistance == Min(actualDistance, availableAhead)
  IN  IF lookDistance = 0 THEN <<>>
      ELSE [i \in 1..lookDistance |->
              b.buffer[(b.current + 1 + (i - 1)) % BufLen(b)]]

canAdvance(b) == getAvailableAhead(b) > 0 \/ b.eof

\* a compaction that drops one byte more than the excess
autoCompact_DropExtra(b) ==
  LET behindDistance == getAvailableBehind(b)
      excess == behindDistance - b.maxLookBehind + 1
  IN  IF behindDistance > b.maxLookBehind
        THEN [b EXCEPT !.tail = (b.tail + excess) % BufLen(b),
                       !.filled = b.filled - excess]
        ELSE b

\* a compaction that moves the bound and forgets to lower the filled count
autoCompact_KeepFilled(b) ==
  LET behindDistance == getAvailableBehind(b)
      excess == behindDistance - b.maxLookBehind
  IN  IF behindDistance > b.maxLookBehind
        THEN [b EXCEPT !.tail = (b.tail + excess) % BufLen(b)]
        ELSE b

autoCompact(b) ==
  LET behindDistance == getAvailableBehind(b)
      excess == behindDistance - b.maxLookBehind
  IN  IF behindDistance > b.maxLookBehind
        THEN [b EXCEPT !.tail = (b.tail + excess) % BufLen(b),
                       !.filled = b.filled - excess]
        ELSE b

\* an advance that moves the cursor before it looks at canAdvance
advance_Unguarded(b) ==
  [buf |-> autoCompact([b EXCEPT
             !.current = (b.current + 1) % BufLen(b),
             !.globalPos = b.globalPos + 1]),
   ret |-> canAdvance(b)]

\* an advance that counts the position also when it fails
advance_CountOnFail(b) ==
  IF ~canAdvance(b)
    THEN [buf |-> [b EXCEPT !.globalPos = b.globalPos + 1], ret |-> FALSE]
    ELSE [buf |-> autoCompact([b EXCEPT
                     !.current = (b.current + 1) % BufLen(b),
                     !.globalPos = b.globalPos + 1]),
          ret |-> TRUE]

\* advance(): the buffer afterwards and the value returned
advance(b) ==
  IF ~canAdvance(b)
    THEN [buf |-> b, ret |-> FALSE]
    ELSE [buf |-> autoCompact([b EXCEPT
                     !.current = (b.current + 1) % BufLen(b),
                     !.globalPos = b.globalPos + 1]),
          ret |-> TRUE]

RECURSIVE fill(_, _)
fill(b, data) ==
  IF data = <<>> \/ ~(b.filled < BufLen(b))
    THEN b
    ELSE fill([b EXCEPT !.buffer[b.head] = Head(data),
                        !.head = (b.head + 1) % BufLen(b),
                        !.filled = b.filled + 1],
              Tail(data))

\* a markEOF that flips the flag instead of setting it
markEOF_Toggle(b) == [b EXCEPT !.eof = ~b.eof]

markEOF(b) == [b EXCEPT !.eof = TRUE]

getState(b) ==
  [size |-> BufLen(b),
   position |-> b.current,
   available |-> b.filled,
   canLookBehind |-> getAvailableBehind(b),
   canLookAhead |-> getAvailableAhead(b),
   isEOF |-> b.eof,
   globalPosition |-> b.globalPos]

getStreamPosition(b) == [line |-> 0, column |-> 0, offset |-> b.globalPos]

\* a needsRefill that halves maxLookAhead with integer division
needsRefill_IntegerHalf(b) ==
  ~b.eof /\ getAvailableAhead(b) < b.maxLookAhead \div 2

\* getAvailableAhead() < maxLookAhead / 2, the division being exact
needsRefill(b) == ~b.eof /\ 2 * getAvailableAhead(b) < b.maxLookAhead

\* a reset that leaves the compaction bound where it was
reset_KeepTail(b) ==
  [b EXCEPT !.head = 0, !.current = 0, !.globalPos = 0,
            !.eof = FALSE, !.filled = 0,
            !.buffer = [i \in DOMAIN b.buffer |-> 0]]

reset(b) ==
  [b EXCEPT !.head = 0, !.tail = 0, !.current = 0, !.globalPos = 0,
            !.eof = FALSE, !.filled = 0,
            !.buffer = [i \in DOMAIN b.buffer |-> 0]]

\* the bytes of data that fill(b, data) stores (the loop stops storing once
\* filled reaches the buffer length)
Stored(b, data) == SubSeq(data, 1, fill(b, data).filled - b.filled)

\* ------------------------------------------------------ StreamingPipeline
\* TextEncoder.encode: UTF-8, one byte below U+0080, two bytes below U+0800
RECURSIVE Encode(_)
Encode(text) ==
  IF text = <<>> THEN <<>>
  ELSE LET c == Head(text)
       IN  (IF c < 128 THEN <<c>>
            ELSE <<192 + (c \div 64), 128 + (c % 64)>>) \o Encode(Tail(text))

\* bufferOptions of a new pipeline
DefaultLookBehindSize == 512
DefaultLookAheadSize == 2048
DefaultBufferOptions ==
  [lookBehindSize |-> DefaultLookBehindSize,
   lookAheadSize |-> DefaultLookAheadSize]

\* a || b on numbers: an absent option is modelled as 0, which is falsy too
OrElse(a, b) == IF a = 0 THEN b ELSE a

Formats == {"html", "hex"}
NoRenderer ==
  [format |-> "none", tag |-> "none", blank |-> {}, throwsOn |-> {}]
\* renderers that may be registered: two for "html", none for "hex"; a
\* renderer returns the empty string for the chunk contents in blank, and
\* throws on the chunks whose <<content, index>> is in throwsOn
RendererPool ==
  {[format |-> "html", tag |-> "h1", blank |-> {}, throwsOn |-> {}],
   [format |-> "html", tag |-> "h2", blank |-> {0}, throwsOn |-> {}]}

\* renderer.renderChunk(chunk) throws
renderThrows(r, chunk) == <<chunk.content, chunk.index>> \in r.throwsOn

\* renderer.renderChunk(chunk): an output naming the renderer, or the empty
\* string
renderChunk(r, chunk) ==
  IF chunk.content \in r.blank THEN <<>>
  ELSE <<r.tag, chunk.type, chunk.content>>

\* processors that may be registered; a processor accepts the cursor
\* values in accepts, throws on those in throwsOn, and otherwise returns
\* emits chunks and the advance distance adv
CursorValues == Byte \cup {Null, 195, 169}
NoProcessor ==
  [name |-> "none", priority |-> 0, accepts |-> {}, throwsOn |-> {},
   emits |-> 0, adv |-> 0]
ProcessorPool ==
  {[name |-> "hex", priority |-> 10, accepts |-> CursorValues,
    throwsOn |-> {}, emits |-> 1, adv |-> 1],
   [name |-> "one", priority |-> 20, accepts |-> {1},
    throwsOn |-> {}, emits |-> 2, adv |-> 0],
   [name |-> "skip", priority |-> 10, accepts |-> {0},
    throwsOn |-> {}, emits |-> 0, adv |-> 2],
   [name |-> "err", priority |-> 10, accepts |-> CursorValues,
    throwsOn |-> {1}, emits |-> 1, adv |-> 1]}

\* processor.canProcess(context)
canProcess(p, context) == peek(context.buffer) \in p.accepts

\* processor.process(context): chunks and advance (no data at the cursor:
\* nothing emitted, advance 0); index is the chunk's place in the result
process(p, context) ==
  LET byte == peek(context.buffer)
  IN  IF byte = Null
        THEN [chunks |-> <<>>, advance |-> 0]
        ELSE [chunks |-> [i \in 1..p.emits |->
                            [type |-> p.name, content |-> byte, index |-> i]],
              advance |-> p.adv]

\* Array.prototype.sort with (a, b) => b.priority - a.priority: stable,
\* descending priority.  Insert one element into a sorted list, after the
\* elements of equal priority.
RECURSIVE InsertSorted(_, _)
InsertSorted(list, p) ==
  IF list = <<>> THEN <<p>>
  ELSE IF Head(list).priority >= p.priority
    THEN <<Head(list)>> \o InsertSorted(Tail(list), p)
    ELSE <<p>> \o list

\* registerProcessor without the sort
registerProcessor_PushOnly(list, p) == Append(list, p)

\* registerProcessor: push, then sort
registerProcessor(list, p) == InsertSorted(list, p)

\* a registerRenderer that keeps the renderer a format already has
registerRenderer_KeepFirst(map, r) ==
  IF map[r.format] = NoRenderer THEN [map EXCEPT ![r.format] = r] ELSE map

\* registerRenderer: this.renderers.set(renderer.format, renderer)
registerRenderer(map, r) == [map EXCEPT ![r.format] = r]

\* findProcessor: the first processor whose canProcess is true, or none
RECURSIVE findProcessor(_, _)
findProcessor(list, context) ==
  IF list = <<>> THEN NoProcessor
  ELSE IF canProcess(Head(list), context) THEN Head(list)
  ELSE findProcessor(Tail(list), context)

createContext(b) ==
  [buffer |-> b,
   position |-> getStreamPosition(b),
   bufferState |-> getState(b),
   isEOF |-> getState(b).isEOF,
   needsRefill |-> needsRefill(b),
   canAdvance |-> canAdvance(b)]

\* the advance loop leaving after its first call
AdvanceTimes_Once(b, n) == advance(b).buf

\* for (i = 0; i < n; i++) if (!buffer.advance()) break;
RECURSIVE AdvanceTimes(_, _)
AdvanceTimes(b, n) ==
  IF n <= 0 \/ ~advance(b).ret THEN b
  ELSE AdvanceTimes(advance(b).buf, n - 1)

\* the condition of the main processing loop
LoopCondition(b) == ~getState(b).isEOF \/ canAdvance(b)

\* the placeholder held by buf while no processStream call has a buffer
NoBuffer == NewBuffer(0, 0)

\* inputs of processStream
StringInputs ==
  {[kind |-> "string", text |-> t, chunks |-> <<>>] :
     t \in UNION {[1..k -> Char] : k \in 0..(MaxInput - 1)}}
BytesInputs ==
  {[kind |-> "bytes", text |-> t, chunks |-> <<>>] :
     t \in ByteArrays(MaxInput)}
StreamInputs ==
  {[kind |-> "stream", text |-> <<>>, chunks |-> c] :
     c \in UNION {[1..k -> ByteArrays(MaxChunkLen)] : k \in 0..MaxChunks}}
Inputs == StringInputs \cup BytesInputs \cup StreamInputs

\* all bytes an input stands for, in order
RECURSIVE Flatten(_)
Flatten(chunks) ==
  IF chunks = <<>> THEN <<>> ELSE Head(chunks) \o Flatten(Tail(chunks))
InputBytes(inp) ==
  IF inp.kind = "string" THEN Encode(inp.text)
  ELSE IF inp.kind = "bytes" THEN inp.text
  ELSE Flatten(inp.chunks)

\* the errors processStream can end with
NoError == [message |-> "none", detail |-> "none"]
RendererError(fmt) ==
  [message |-> "No renderer found for format: ", detail |-> fmt]
SourceError == [message |-> "source read failed", detail |-> "none"]

\* no earlier processStream call
NoRun == [ran |-> FALSE, out |-> <<>>, complete |-> FALSE, srcError |-> FALSE]

NoInput == [kind |-> "none", text |-> <<>>, chunks |-> <<>>]
NoOptions == [lookBehindSize |-> 0, lookAheadSize |-> 0, autoRefill |-> TRUE]

\* a processStream call not made yet, on the pipeline with the given
\* fields: who names the call, shared says that it is made on the same
\* pipeline as the call that is running
SuspendedCall(who, shared, procs, rends, bopts) ==
  [who |-> who, shared |-> shared,
   processors |-> procs, renderers |-> rends, bufferOptions |-> bopts,
   buf |-> NoBuffer, accepted |-> <<>>, pc |-> "idle", pulling |-> FALSE,
   input |-> NoInput, format |-> "none", options |-> NoOptions,
   srcPos |-> 0, srcError |-> FALSE, locked |-> FALSE, chunks |-> <<>>,
   adv |-> 0, out |-> <<>>, err |-> NoError]

\* no second call
NoOther ==
  SuspendedCall("none", FALSE, <<>>, [f \in Formats |-> NoRenderer],
                DefaultBufferOptions)

\* ------------------------------------------------------------- state
VARIABLES
  buf,       \* the CircularStreamBuffer object
  accepted,  \* history: the bytes fill has stored since creation / reset
  lastOp,    \* the buffer method called last
  arg,       \* the argument of that call (Null when it takes none)
  ret,       \* what that call returned
  processors,    \* StreamingPipeline.processors
  renderers,     \* StreamingPipeline.renderers (format -> renderer)
  bufferOptions, \* StreamingPipeline.bufferOptions
  pc,        \* where the processStream generator stands
  pulling,   \* the consumer has asked for the next output and waits
  input,     \* processStream's input argument
  format,    \* processStream's format argument
  options,   \* processStream's options argument
  srcPos,    \* chunks of a streamed input already read
  srcError,  \* the streamed input has failed; every later read rejects
  locked,    \* a reader holds the lock of the streamed input
  chunks,    \* chunks of the current position not yet rendered
  adv,       \* advance distance requested for the current position
  out,       \* outputs yielded to the consumer so far
  err,       \* the error processStream ended with, or NoError
  first,     \* what an earlier processStream call on this input yielded
  other      \* a second processStream call that stands suspended, with
             \* the pipeline it was made on

bvars == <<buf, accepted, lastOp, arg, ret>>
pvars == <<processors, renderers, bufferOptions, pc, pulling, input, format,
           options, srcPos, srcError, locked, chunks, adv, out, err,
           first, other>>
vars == <<buf, accepted, lastOp, arg, ret, processors, renderers,
          bufferOptions, pc, pulling, input, format, options, srcPos,
          srcError, locked, chunks, adv, out, err, first, other>>

\* a new StreamingPipeline, no processStream call made yet
PipelineInit ==
  /\ processors = <<>>
  /\ renderers = [f \in Formats |-> NoRenderer]
  /\ bufferOptions = DefaultBufferOptions
  /\ pc = "idle"
  /\ pulling = FALSE
  /\ input = NoInput
  /\ format = "none"
  /\ options = NoOptions
  /\ srcPos = 0
  /\ srcError = FALSE
  /\ locked = FALSE
  /\ chunks = <<>>
  /\ adv = 0
  /\ out = <<>>
  /\ err = NoError
  /\ first = NoRun
  /\ other = NoOther

\* ------------------------------------------- the buffer used on its own
Init ==
  /\ \E lb \in 0..MaxLookBehindSize, la \in 0..MaxLookAheadSize :
       buf = NewBuffer(lb, la)
  /\ accepted = <<>>
  /\ lastOp = "new"
  /\ arg = Null
  /\ ret = Null
  /\ PipelineInit

Fill(data) ==
  /\ Len(accepted) + Len(Stored(buf, data)) <= MaxStream
  /\ buf' = fill(buf, data)
  /\ accepted' = accepted \o Stored(buf, data)
  /\ lastOp' = "fill"
  /\ arg' = data
  /\ ret' = Null
  /\ UNCHANGED pvars

Advance ==
  /\ buf.globalPos < MaxPos
  /\ buf' = advance(buf).buf
  /\ ret' = advance(buf).ret
  /\ lastOp' = "advance"
  /\ arg' = Null
  /\ UNCHANGED accepted
  /\ UNCHANGED pvars

MarkEOF ==
  /\ buf' = markEOF(buf)
  /\ lastOp' = "markEOF"
  /\ arg' = Null
  /\ ret' = Null
  /\ UNCHANGED accepted
  /\ UNCHANGED pvars

Reset ==
  /\ buf' = reset(buf)
  /\ accepted' = <<>>
  /\ lastOp' = "reset"
  /\ arg' = Null
  /\ ret' = Null
  /\ UNCHANGED pvars

\* a peek that moves the cursor to the next byte
Peek_Consuming ==
  /\ lastOp' = "peek"
  /\ arg' = Null
  /\ ret' = peek(buf)
  /\ buf' = advance(buf).buf
  /\ UNCHANGED accepted
  /\ UNCHANGED pvars

Peek ==
  /\ lastOp' = "peek"
  /\ arg' = Null
  /\ ret' = peek(buf)
  /\ UNCHANGED <<buf, accepted>>
  /\ UNCHANGED pvars

LookAhead(n) ==
  /\ lastOp' = "lookAhead"
  /\ arg' = n
  /\ ret' = lookAhead(buf, n)
  /\ UNCHANGED <<buf, accepted>>
  /\ UNCHANGED pvars

LookBehind(n) ==
  /\ lastOp' = "lookBehind"
  /\ arg' = n
  /\ ret' = lookBehind(buf, n)
  /\ UNCHANGED <<buf, accepted>>
  /\ UNCHANGED pvars

GetState ==
  /\ lastOp' = "getState"
  /\ arg' = Null
  /\ ret' = getState(buf)
  /\ UNCHANGED <<buf, accepted>>
  /\ UNCHANGED pvars

CanAdvance ==
  /\ lastOp' = "canAdvance"
  /\ arg' = Null
  /\ ret' = canAdvance(buf)
  /\ UNCHANGED <<buf, accepted>>
  /\ UNCHANGED pvars

NeedsRefill ==
  /\ lastOp' = "needsRefill"
  /\ arg' = Null
  /\ ret' = needsRefill(buf)
  /\ UNCHANGED <<buf, accepted>>
  /\ UNCHANGED pvars

\* the pipeline builds the context of a position from the buffer
CreateContext ==
  /\ lastOp' = "createContext"
  /\ arg' = Null
  /\ ret' = createContext(buf)
  /\ UNCHANGED <<buf, accepted>>
  /\ UNCHANGED pvars

Next ==
  \/ \E data \in ByteArrays(MaxFill) : Fill(data)
  \/ Advance
  \/ MarkEOF
  \/ Reset
  \/ Peek
  \/ \E n \in 0..MaxDistance : LookAhead(n)
  \/ \E n \in 0..MaxDistance : LookBehind(n)
  \/ GetState
  \/ CanAdvance
  \/ NeedsRefill
  \/ CreateContext

Spec == Init /\ [][Next]_vars

\* --------------------------------------------------- the pipeline
PipeInit ==
  /\ buf = NoBuffer
  /\ accepted = <<>>
  /\ lastOp = "new"
  /\ arg = Null
  /\ ret = Null
  /\ PipelineInit

RegisterProcessor(p) ==
  /\ pc = "idle"
  /\ Len(processors) < MaxProcessors
  /\ processors' = registerProcessor(processors, p)
  /\ UNCHANGED <<renderers, bufferOptions, pc, pulling, input, format,
                 options, srcPos, srcError, locked, chunks, adv, out, err>>
  /\ UNCHANGED bvars
  /\ UNCHANGED <<first, other>>

RegisterRenderer(r) ==
  /\ pc = "idle"
  /\ renderers' = registerRenderer(renderers, r)
  /\ UNCHANGED <<processors, bufferOptions, pc, pulling, input, format,
                 options, srcPos, srcError, locked, chunks, adv, out, err>>
  /\ UNCHANGED bvars
  /\ UNCHANGED <<first, other>>

ConfigureBuffer(lb, la) ==
  /\ pc = "idle"
  /\ bufferOptions' = [lookBehindSize |-> lb, lookAheadSize |-> la]
  /\ UNCHANGED <<processors, renderers, pc, pulling, input, format,
                 options, srcPos, srcError, locked, chunks, adv, out, err>>
  /\ UNCHANGED bvars
  /\ UNCHANGED <<first, other>>

\* processStream(input, format, options) is called: an async generator is
\* created, and nothing of its body runs before the first pull
ProcessStream(inp, fmt, opts) ==
  /\ pc = "idle"
  /\ OrElse(opts.lookBehindSize, bufferOptions.lookBehindSize)
       <= MaxConfigLookBehind
  /\ OrElse(opts.lookAheadSize, bufferOptions.lookAheadSize)
       <= MaxConfigLookAhead
  /\ pc' = "start"
  /\ input' = inp
  /\ format' = fmt
  /\ options' = opts
  /\ UNCHANGED <<processors, renderers, bufferOptions, pulling, srcPos,
                 srcError, locked, chunks, adv, out, err>>
  /\ UNCHANGED bvars
  /\ UNCHANGED <<first, other>>

\* the consumer asks for the next output
Pull ==
  /\ pc \in {"start", "render"}
  /\ ~pulling
  /\ pulling' = TRUE
  /\ UNCHANGED <<processors, renderers, bufferOptions, pc, input, format,
                 options, srcPos, srcError, locked, chunks, adv, out, err>>
  /\ UNCHANGED bvars
  /\ UNCHANGED <<first, other>>

\* fillBuffer for an in-memory input that fills and leaves EOF unmarked
FillInMemory_NoEOF(b, inp) == fill(b, InputBytes(inp))

\* fillBuffer for a string or Uint8Array input: fill, then markEOF
FillInMemory(b, inp) == markEOF(fill(b, InputBytes(inp)))

\* processStream creating and filling the buffer before it looks up the
\* renderer
Begin_BufferFirst ==
  /\ pc = "start" /\ pulling
  /\ LET b == NewBuffer(
             OrElse(options.lookBehindSize, bufferOptions.lookBehindSize),
             OrElse(options.lookAheadSize, bufferOptions.lookAheadSize))
     IN  /\ buf' = IF input.kind = "stream" THEN b
                                            ELSE FillInMemory(b, input)
         /\ accepted' = IF input.kind = "stream" THEN <<>>
                        ELSE Stored(b, InputBytes(input))
  /\ IF renderers[format] = NoRenderer
       THEN /\ pc' = "failed"
            /\ err' = RendererError(format)
            /\ pulling' = FALSE
            /\ UNCHANGED locked
       ELSE /\ pc' = IF input.kind = "stream" THEN "read_init" ELSE "loop"
            /\ locked' = (input.kind = "stream")
            /\ UNCHANGED <<err, pulling>>
  /\ UNCHANGED <<processors, renderers, bufferOptions, input, format,
                 options, srcPos, srcError, chunks, adv, out>>
  /\ UNCHANGED <<lastOp, arg, ret>>
  /\ UNCHANGED <<first, other>>

\* processStream up to its first await: getRenderer, createBuffer and the
\* start of the initial fillBuffer
Begin ==
  /\ pc = "start" /\ pulling
  /\ IF renderers[format] = NoRenderer
       THEN /\ pc' = "failed"
            /\ err' = RendererError(format)
            /\ pulling' = FALSE
            /\ UNCHANGED <<buf, accepted, locked>>
       ELSE LET b == NewBuffer(
                  OrElse(options.lookBehindSize, bufferOptions.lookBehindSize),
                  OrElse(options.lookAheadSize, bufferOptions.lookAheadSize))
            IN  /\ IF input.kind = "stream"
                     THEN /\ buf' = b
                          /\ accepted' = <<>>
                          /\ locked' = TRUE
                          /\ pc' = "read_init"
                     ELSE /\ buf' = FillInMemory(b, input)
                          /\ accepted' = Stored(b, InputBytes(input))
                          /\ pc' = "loop"
                          /\ UNCHANGED locked
                /\ UNCHANGED <<err, pulling>>
  /\ UNCHANGED <<processors, renderers, bufferOptions, input, format,
                 options, srcPos, srcError, chunks, adv, out>>
  /\ UNCHANGED <<lastOp, arg, ret>>
  /\ UNCHANGED <<first, other>>

\* fillBuffer on a streamed input: reader.read() delivers the next chunk
ReadChunk ==
  /\ pc \in {"read_init", "read_refill"} /\ pulling
  /\ ~srcError
  /\ srcPos < Len(input.chunks)
  /\ LET value == input.chunks[srcPos + 1]
         b == fill(buf, value)
     IN  /\ buf' = b
         /\ accepted' = accepted \o Stored(buf, value)
         /\ srcPos' = srcPos + 1
         /\ IF ~needsRefill(b)
              THEN locked' = FALSE /\ pc' = "loop"
              ELSE UNCHANGED <<locked, pc>>
  /\ UNCHANGED <<processors, renderers, bufferOptions, pulling, input,
                 format, options, srcError, chunks, adv, out, err>>
  /\ UNCHANGED <<lastOp, arg, ret>>
  /\ UNCHANGED <<first, other>>

\* fillBuffer on a streamed input: reader.read() reports done
ReadDone ==
  /\ pc \in {"read_init", "read_refill"} /\ pulling
  /\ ~srcError
  /\ srcPos = Len(input.chunks)
  /\ buf' = markEOF(buf)
  /\ locked' = FALSE
  /\ pc' = "loop"
  /\ UNCHANGED <<processors, renderers, bufferOptions, pulling, input,
                 format, options, srcPos, srcError, chunks, adv, out, err>>
  /\ UNCHANGED <<accepted, lastOp, arg, ret>>
  /\ UNCHANGED <<first, other>>

\* a failing read that leaves without releasing the reader's lock
ReadFail_KeepLock ==
  /\ pc \in {"read_init", "read_refill"} /\ pulling
  /\ srcError' = TRUE
  /\ UNCHANGED locked
  /\ IF pc = "read_init"
       THEN /\ pc' = "failed"
            /\ err' = SourceError
            /\ pulling' = FALSE
            /\ UNCHANGED buf
       ELSE /\ buf' = advance(buf).buf
            /\ pc' = IF advance(buf).ret THEN "loop" ELSE "done"
            /\ pulling' = advance(buf).ret
            /\ UNCHANGED err
  /\ UNCHANGED <<processors, renderers, bufferOptions, input, format,
                 options, srcPos, chunks, adv, out>>
  /\ UNCHANGED <<accepted, lastOp, arg, ret>>
  /\ UNCHANGED <<first, other>>

\* fillBuffer on a streamed input: reader.read() rejects.  The lock is
\* released; during the initial fill the error leaves processStream, during
\* a refill the catch block of the loop takes it and advances once
ReadFail ==
  /\ pc \in {"read_init", "read_refill"} /\ pulling
  /\ srcError' = TRUE
  /\ locked' = FALSE
  /\ IF pc = "read_init"
       THEN /\ pc' = "failed"
            /\ err' = SourceError
            /\ pulling' = FALSE
            /\ UNCHANGED buf
       ELSE /\ buf' = advance(buf).buf
            /\ pc' = IF advance(buf).ret THEN "loop" ELSE "done"
            /\ pulling' = advance(buf).ret
            /\ UNCHANGED err
  /\ UNCHANGED <<processors, renderers, bufferOptions, input, format,
                 options, srcPos, chunks, adv, out>>
  /\ UNCHANGED <<accepted, lastOp, arg, ret>>
  /\ UNCHANGED <<first, other>>

\* the end of an iteration refilling whether or not a refill is due
Continue_AlwaysRefill(b) ==
  IF input.kind = "stream"
    THEN /\ buf' = b
         /\ locked' = TRUE
         /\ pc' = "read_refill"
         /\ UNCHANGED accepted
    ELSE /\ buf' = FillInMemory(b, input)
         /\ accepted' = accepted \o Stored(b, InputBytes(input))
         /\ pc' = "loop"
         /\ UNCHANGED locked

\* after the advances of an iteration: refill if needed, then loop again
Continue(b) ==
  IF needsRefill(b) /\ options.autoRefill
    THEN IF input.kind = "stream"
           THEN /\ buf' = b
                /\ locked' = TRUE
                /\ pc' = "read_refill"
                /\ UNCHANGED accepted
           ELSE /\ buf' = FillInMemory(b, input)
                /\ accepted' = accepted \o Stored(b, InputBytes(input))
                /\ pc' = "loop"
                /\ UNCHANGED locked
    ELSE /\ buf' = b
         /\ pc' = "loop"
         /\ UNCHANGED <<accepted, locked>>

\* the loop test and, inside the loop, createContext, findProcessor and
\* processor.process
Loop ==
  /\ pc = "loop" /\ pulling
  /\ buf.globalPos < Len(InputBytes(input)) + MaxOverrun
  /\ Len(out) < MaxOutputs
  /\ IF ~LoopCondition(buf)
       THEN /\ pc' = "done"
            /\ pulling' = FALSE
            /\ UNCHANGED <<buf, accepted, locked, chunks, adv>>
       ELSE LET context == createContext(buf)
                processor == findProcessor(processors, context)
            IN  IF processor # NoProcessor
                  THEN IF peek(context.buffer) \in processor.throwsOn
                         THEN \* catch: try to advance past the error
                              /\ buf' = advance(buf).buf
                              /\ pc' = IF advance(buf).ret
                                         THEN "loop" ELSE "done"
                              /\ pulling' = advance(buf).ret
                              /\ UNCHANGED <<accepted, locked, chunks, adv>>
                         ELSE /\ chunks' = process(processor, context).chunks
                              /\ adv' = process(processor, context).advance
                              /\ pc' = "render"
                              /\ UNCHANGED <<buf, accepted, locked, pulling>>
                  ELSE \* no processor found, advance one position
                       IF ~advance(buf).ret
                         THEN /\ pc' = "done"
                              /\ pulling' = FALSE
                              /\ UNCHANGED <<buf, accepted, locked, chunks,
                                             adv>>
                         ELSE /\ Continue(advance(buf).buf)
                              /\ UNCHANGED <<pulling, chunks, adv>>
  /\ UNCHANGED <<processors, renderers, bufferOptions, input, format,
                 options, srcPos, srcError, out, err>>
  /\ UNCHANGED <<lastOp, arg, ret>>
  /\ UNCHANGED <<first, other>>

\* the render loop advancing the cursor with every chunk it renders
Render_AdvanceFirst ==
  /\ pc = "render" /\ pulling
  /\ IF chunks # <<>>
       THEN IF renderThrows(renderers[format], Head(chunks))
              THEN /\ buf' = advance(buf).buf
                   /\ pc' = IF advance(buf).ret THEN "loop" ELSE "done"
                   /\ pulling' = advance(buf).ret
                   /\ chunks' = <<>>
                   /\ UNCHANGED <<accepted, locked, out>>
              ELSE LET output == renderChunk(renderers[format], Head(chunks))
                   IN  /\ out' = IF output # <<>> THEN Append(out, output)
                                                  ELSE out
                       /\ pulling' = (output = <<>>)
                       /\ chunks' = Tail(chunks)
                       /\ buf' = advance(buf).buf
                       /\ UNCHANGED <<accepted, locked, pc>>
       ELSE /\ Continue(AdvanceTimes(buf, Max(1, adv)))
            /\ UNCHANGED <<out, chunks, pulling>>
  /\ UNCHANGED <<processors, renderers, bufferOptions, input, format,
                 options, srcPos, srcError, adv, err>>
  /\ UNCHANGED <<lastOp, arg, ret>>
  /\ UNCHANGED <<first, other>>

\* render the next chunk of the position and yield the output unless it is
\* empty (a throw of renderChunk goes to the catch block of the loop); when
\* no chunk is left, advance max(1, advance) times and refill if needed
Render ==
  /\ pc = "render" /\ pulling
  /\ IF chunks # <<>>
       THEN IF renderThrows(renderers[format], Head(chunks))
              THEN \* catch: the chunks left are given up, try to advance
                   /\ buf' = advance(buf).buf
                   /\ pc' = IF advance(buf).ret THEN "loop" ELSE "done"
                   /\ pulling' = advance(buf).ret
                   /\ chunks' = <<>>
                   /\ UNCHANGED <<accepted, locked, out>>
              ELSE LET output == renderChunk(renderers[format], Head(chunks))
                   IN  /\ out' = IF output # <<>> THEN Append(out, output)
                                                  ELSE out
                       /\ pulling' = (output = <<>>)
                       /\ chunks' = Tail(chunks)
                       /\ UNCHANGED <<buf, accepted, locked, pc>>
       ELSE /\ Continue(AdvanceTimes(buf, Max(1, adv)))
            /\ UNCHANGED <<out, chunks, pulling>>
  /\ UNCHANGED <<processors, renderers, bufferOptions, input, format,
                 options, srcPos, srcError, adv, err>>
  /\ UNCHANGED <<lastOp, arg, ret>>
  /\ UNCHANGED <<first, other>>

\* options a processStream call is given (a size of 0 stands for absent)
StreamOptions ==
  {NoOptions,
   [lookBehindSize |-> 1, lookAheadSize |-> 1, autoRefill |-> TRUE],
   [lookBehindSize |-> 0, lookAheadSize |-> 0, autoRefill |-> FALSE]}

PipeNext ==
  \/ \E p \in ProcessorPool : RegisterProcessor(p)
  \/ \E r \in RendererPool : RegisterRenderer(r)
  \/ \E lb \in 0..MaxConfigLookBehind, la \in 0..MaxConfigLookAhead :
       ConfigureBuffer(lb, la)
  \/ \E inp \in Inputs, fmt \in Formats, opts \in StreamOptions :
       ProcessStream(inp, fmt, opts)
  \/ Pull
  \/ Begin
  \/ ReadChunk
  \/ ReadDone
  \/ ReadFail
  \/ Loop
  \/ Render

PipeSpec == PipeInit /\ [][PipeNext]_vars

\* ------------------------- renderers that throw, renderers replaced
\* the renderers of this part: for "html" one that never throws and one
\* that throws on every chunk of content 1 and on the second chunk of
\* content 0, and one renderer for "hex"
ThrowingRendererPool ==
  {[format |-> "html", tag |-> "h1", blank |-> {}, throwsOn |-> {}],
   [format |-> "html", tag |-> "h3", blank |-> {},
    throwsOn |-> {<<1, 1>>, <<1, 2>>, <<0, 2>>}],
   [format |-> "hex", tag |-> "x1", blank |-> {}, throwsOn |-> {}]}

\* the processors of this part: one chunk per byte, and two chunks with
\* advance 2 on byte 0
TwoChunkProcessorPool ==
  {[name |-> "hex", priority |-> 10, accepts |-> CursorValues,
    throwsOn |-> {}, emits |-> 1, adv |-> 1],
   [name |-> "two", priority |-> 20, accepts |-> {0},
    throwsOn |-> {}, emits |-> 2, adv |-> 2]}

\* registerRenderer is called; lastOp and arg record the call
RegisterRendererCall(r) ==
  /\ pc = "idle"
  /\ renderers' = registerRenderer(renderers, r)
  /\ lastOp' = "registerRenderer"
  /\ arg' = r
  /\ UNCHANGED <<processors, bufferOptions, pc, pulling, input, format,
                 options, srcPos, srcError, locked, chunks, adv, out, err>>
  /\ UNCHANGED <<buf, accepted, ret>>
  /\ UNCHANGED <<first, other>>

RenderNext ==
  \/ \E p \in TwoChunkProcessorPool : RegisterProcessor(p)
  \/ \E r \in ThrowingRendererPool : RegisterRendererCall(r)
  \/ \E lb \in 0..MaxConfigLookBehind, la \in 0..MaxConfigLookAhead :
       ConfigureBuffer(lb, la)
  \/ \E inp \in Inputs, fmt \in Formats, opts \in StreamOptions :
       ProcessStream(inp, fmt, opts)
  \/ Pull
  \/ Begin
  \/ ReadChunk
  \/ ReadDone
  \/ ReadFail
  \/ Loop
  \/ Render

RenderSpec == PipeInit /\ [][RenderNext]_vars

\* ------------------------------------- the same input processed twice
\* the second call handed the stream object the first call has consumed
Restart_SameStream ==
  /\ ~first.ran
  /\ \/ pc = "done"
     \/ pc = "render" /\ ~pulling /\ input.kind # "stream"
  /\ first' = [ran |-> TRUE, out |-> out, complete |-> (pc = "done"),
               srcError |-> srcError]
  /\ pc' = "start"
  /\ chunks' = <<>> /\ adv' = 0 /\ out' = <<>>
  /\ UNCHANGED <<srcPos, srcError>>
  /\ UNCHANGED <<processors, renderers, bufferOptions, pulling, input,
                 format, options, locked, err>>
  /\ UNCHANGED bvars
  /\ UNCHANGED other

\* the consumer is done with a processStream call (the output sequence has
\* ended, or, for an in-memory input, the consumer leaves it at a yield),
\* calls reset() or not, and calls processStream again with the same format
\* and options and an input of the same content.  reset() only logs; the
\* buffer of the first call is still what it was.
Restart ==
  /\ ~first.ran
  /\ \/ pc = "done"
     \/ pc = "render" /\ ~pulling /\ input.kind # "stream"
  /\ first' = [ran |-> TRUE, out |-> out, complete |-> (pc = "done"),
               srcError |-> srcError]
  /\ pc' = "start"
  /\ srcPos' = 0 /\ srcError' = FALSE
  /\ chunks' = <<>> /\ adv' = 0 /\ out' = <<>>
  /\ UNCHANGED <<processors, renderers, bufferOptions, pulling, input,
                 format, options, locked, err>>
  /\ UNCHANGED bvars
  /\ UNCHANGED other

RerunNext ==
  \/ PipeNext
  \/ Restart

RerunSpec == PipeInit /\ [][RerunNext]_vars

\* ------------------------------------------ two calls interleaved
\* pipelines as registerProcessor, registerRenderer and configureBuffer
\* leave them
ProcessorNamed(n) == CHOOSE p \in ProcessorPool : p.name = n
TwoRunsProcessorLists ==
  {registerProcessor(<<>>, ProcessorNamed("hex")),
   registerProcessor(registerProcessor(<<>>, ProcessorNamed("hex")),
                     ProcessorNamed("one"))}
TwoRunsRenderers ==
  {registerRenderer([f \in Formats |-> NoRenderer], r) : r \in RendererPool}
TwoRunsBufferOptions == {[lookBehindSize |-> 1, lookAheadSize |-> 1]}

\* inputs of the two calls: one or two bytes in memory, or a stream of one
\* or two chunks of one byte
TwoRunsInputs ==
  {inp \in BytesInputs : Len(inp.text) \in 1..2}
    \cup {inp \in StreamInputs :
            /\ Len(inp.chunks) >= 1
            /\ \A i \in 1..Len(inp.chunks) : Len(inp.chunks[i]) = 1}

\* call A is about to be made on a configured pipeline; call B will be made
\* on the same pipeline (shared) or on a second one of its own
TwoRunsInit ==
  /\ buf = NoBuffer
  /\ accepted = <<>>
  /\ lastOp = "new"
  /\ arg = Null
  /\ ret = Null
  /\ processors \in TwoRunsProcessorLists
  /\ renderers \in TwoRunsRenderers
  /\ bufferOptions \in TwoRunsBufferOptions
  /\ pc = "idle"
  /\ pulling = FALSE
  /\ input = NoInput
  /\ format = "none"
  /\ options = NoOptions
  /\ srcPos = 0
  /\ srcError = FALSE
  /\ locked = FALSE
  /\ chunks = <<>>
  /\ adv = 0
  /\ out = <<>>
  /\ err = NoError
  /\ first = NoRun
  /\ \/ other = SuspendedCall("B", TRUE, processors, renderers,
                              bufferOptions)
     \/ \E procs \in TwoRunsProcessorLists, rends \in TwoRunsRenderers,
           bopts \in TwoRunsBufferOptions :
          other = SuspendedCall("B", FALSE, procs, rends, bopts)

\* the call that is running
Running == IF other.who = "B" THEN "A" ELSE "B"

\* the running call is suspended: the consumer holds it (not yet pulled,
\* at a yield, ended) or it awaits fillBuffer
Suspended == ~pulling \/ pc \in {"read_init", "read_refill", "loop"}

\* the running call is set aside with its arguments and locals, and those
\* of the other call (the buffer apart) are taken up
SwapCall ==
  /\ other' = [who |-> Running, shared |-> other.shared,
               processors |-> processors, renderers |-> renderers,
               bufferOptions |-> bufferOptions,
               buf |-> buf, accepted |-> accepted, pc |-> pc,
               pulling |-> pulling, input |-> input, format |-> format,
               options |-> options, srcPos |-> srcPos,
               srcError |-> srcError, locked |-> locked,
               chunks |-> chunks, adv |-> adv, out |-> out, err |-> err]
  /\ pc' = other.pc
  /\ pulling' = other.pulling
  /\ input' = other.input
  /\ format' = other.format
  /\ options' = other.options
  /\ srcPos' = other.srcPos
  /\ srcError' = other.srcError
  /\ locked' = other.locked
  /\ chunks' = other.chunks
  /\ adv' = other.adv
  /\ out' = other.out
  /\ err' = other.err
  /\ UNCHANGED <<lastOp, arg, ret, first>>

\* a pipeline that keeps the buffer in a field of its own: a call made on
\* the same pipeline resumes with the buffer the other call left
Switch_SharedBuffer ==
  /\ first.ran
  /\ Suspended
  /\ SwapCall
  /\ IF other.shared
       THEN UNCHANGED <<processors, renderers, bufferOptions, buf, accepted>>
       ELSE /\ processors' = other.processors
            /\ renderers' = other.renderers
            /\ bufferOptions' = other.bufferOptions
            /\ buf' = other.buf
            /\ accepted' = other.accepted

\* pipelines that keep one processor list for all instances, holding what
\* the pipeline of call B registered: call A resumes with that list
Switch_SharedProcessors ==
  /\ first.ran
  /\ Suspended
  /\ SwapCall
  /\ buf' = other.buf
  /\ accepted' = other.accepted
  /\ processors' = IF Running = "A" THEN other.processors ELSE processors
  /\ IF other.shared
       THEN UNCHANGED <<renderers, bufferOptions>>
       ELSE /\ renderers' = other.renderers
            /\ bufferOptions' = other.bufferOptions

\* the running call stays suspended and the other call goes on.  The
\* locals of processStream (the buffer among them) and its arguments belong
\* to the call; processors, renderers and bufferOptions belong to the
\* pipeline, and so change hands only if the other call was made on another
\* pipeline
Switch ==
  /\ first.ran
  /\ Suspended
  /\ SwapCall
  /\ buf' = other.buf
  /\ accepted' = other.accepted
  /\ IF other.shared
       THEN UNCHANGED <<processors, renderers, bufferOptions>>
       ELSE /\ processors' = other.processors
            /\ renderers' = other.renderers
            /\ bufferOptions' = other.bufferOptions

\* call A is first made and consumed alone, then made again (Restart) and
\* interleaved with call B
TwoRunsNext ==
  \/ \E inp \in TwoRunsInputs : ProcessStream(inp, "html", NoOptions)
  \/ Pull
  \/ Begin
  \/ ReadChunk
  \/ ReadDone
  \/ ReadFail
  \/ Loop
  \/ Render
  \/ Running = "A" /\ Restart
  \/ Switch

TwoRunsSpec == TwoRunsInit /\ [][TwoRunsNext]_vars

\* ------------------------------------------------ buffer properties
\* the byte fill stored at stream offset o (offsets count from 0)
StreamByte(o) == accepted[o + 1]

\* C1: for a buffer constructed with lookBehind B and lookAhead A,
\* getState().size is B + 1 + A in every reachable state.
C1_SizeConstant ==
  getState(buf).size = buf.maxLookBehind + 1 + buf.maxLookAhead

\* C1 witness: the stream has wrapped around the ring and the last fill
\* left the buffer completely full
C1_Witness ==
  /\ lastOp = "fill"
  /\ Len(accepted) > BufLen(buf)
  /\ buf.filled = BufLen(buf)
  /\ getState(buf).size = buf.maxLookBehind + 1 + buf.maxLookAhead

\* C4: globalPosition never exceeds the number of bytes accepted by fill
\* since creation or the last reset.
C4_CursorWithinWritten == buf.globalPos <= Len(accepted)

\* C5: once EOF is marked and the filled data is consumed, canAdvance() is
\* false (so the loop 'while canAdvance() do advance()' stops).
C5_ExhaustedCannotAdvance ==
  (buf.eof /\ buf.globalPos >= Len(accepted)) => ~canAdvance(buf)

\* C6: an advance() that returns true increases globalPosition by exactly
\* 1; a failed advance and every other call except reset leave it unchanged.
C6_AdvanceMonotonic ==
  [][IF lastOp' = "reset" THEN TRUE
     ELSE IF lastOp' = "advance" /\ ret' = TRUE
       THEN buf'.globalPos = buf.globalPos + 1
       ELSE buf'.globalPos = buf.globalPos]_vars

\* C6 witness: two successful advances have been made
C6_Witness == lastOp = "advance" /\ ret = TRUE /\ buf.globalPos >= 2

\* C7: 0 <= filled <= capacity in every reachable state.
C7_FilledInRange == 0 <= buf.filled /\ buf.filled <= BufLen(buf)

\* slots given up when the compaction bound moves from b.tail to b2.tail
Dropped(b, b2) ==
  {(b.tail + i) % BufLen(b) :
     i \in 0..(((b2.tail - b.tail + BufLen(b)) % BufLen(b)) - 1)}

\* slots holding a byte at or ahead of the cursor that is not yet consumed
UnconsumedSlots(b) ==
  {o % BufLen(b) : o \in {x \in 0..(Len(accepted) - 1) : x >= b.globalPos}}

\* C8: after every advance canLookBehind <= maxLookBehind, and compaction
\* drops only bytes more than maxLookBehind behind the cursor, never the
\* byte at the cursor or an unconsumed byte ahead of it.
C8_CompactionBounded ==
  [][lastOp' = "advance" =>
       /\ getState(buf').canLookBehind <= buf'.maxLookBehind
       /\ buf.filled - buf'.filled = Cardinality(Dropped(buf, buf'))
       /\ \A s \in Dropped(buf, buf') :
            /\ (buf'.current - s + BufLen(buf)) % BufLen(buf)
                 > buf'.maxLookBehind
            /\ s # buf'.current
            /\ s \notin UnconsumedSlots(buf')]_vars

\* C8 witness: an advance has just compacted with lookbehind at its limit
\* and unconsumed bytes ahead
C8_Witness ==
  /\ lastOp = "advance" /\ ret = TRUE
  /\ buf.globalPos > buf.maxLookBehind
  /\ getState(buf).canLookBehind = buf.maxLookBehind
  /\ buf.globalPos + 1 < Len(accepted)

\* C9: lookAhead(n) returns exactly min(n, maxLookAhead, availableAhead)
\* bytes and they are the bytes fill stored at stream offsets
\* globalPosition+1 .. globalPosition+k, in that order.
C9_LookAheadContent ==
  \A n \in 0..MaxDistance :
    LET k == Min(n, Min(buf.maxLookAhead, getState(buf).canLookAhead))
        r == lookAhead(buf, n)
    IN  /\ Len(r) = k
        /\ \A i \in 1..k :
             /\ buf.globalPos + i < Len(accepted)
             /\ r[i] = StreamByte(buf.globalPos + i)

\* C10: lookBehind(n) returns exactly min(n, maxLookBehind, availableBehind)
\* bytes, oldest first, and they are the bytes fill stored at stream offsets
\* globalPosition-k .. globalPosition-1.
C10_LookBehindContent ==
  \A n \in 0..MaxDistance :
    LET k == Min(n, Min(buf.maxLookBehind, getState(buf).canLookBehind))
        r == lookBehind(buf, n)
    IN  /\ Len(r) = k
        /\ \A i \in 1..k :
             /\ buf.globalPos - k + i - 1 < Len(accepted)
             /\ r[i] = StreamByte(buf.globalPos - k + i - 1)


\* C11: lookAhead(n) with n > maxLookAhead returns at most maxLookAhead
\* bytes and lookBehind(n) with n > maxLookBehind at most maxLookBehind
\* bytes, every slot read lying inside the buffer.
C11_Clamped ==
  \A n \in 0..MaxDistance :
    /\ n > buf.maxLookAhead =>
         /\ Len(lookAhead(buf, n)) <= buf.maxLookAhead
         /\ \A i \in 1..Len(lookAhead(buf, n)) :
              (buf.current + i) % BufLen(buf) \in DOMAIN buf.buffer
    /\ n > buf.maxLookBehind =>
         /\ Len(lookBehind(buf, n)) <= buf.maxLookBehind
         /\ \A i \in 1..Len(lookBehind(buf, n)) :
              (buf.current - i + BufLen(buf)) % BufLen(buf)
                \in DOMAIN buf.buffer

\* C11 witness: lookAhead was asked for more than maxLookAhead while more
\* than maxLookAhead bytes were available, and returned maxLookAhead bytes
C11_Witness ==
  /\ lastOp = "lookAhead"
  /\ arg > buf.maxLookAhead
  /\ getAvailableAhead(buf) > buf.maxLookAhead
  /\ buf.maxLookAhead > 0
  /\ Len(ret) = buf.maxLookAhead

\* C12: peek() is the byte fill stored at stream offset globalPosition when
\* there is one, and null when the cursor stands where no data is.
C12_PeekContent ==
  IF buf.globalPos < Len(accepted)
    THEN peek(buf) = StreamByte(buf.globalPos)
    ELSE peek(buf) = Null

\* slots holding a stored byte that fill must not touch: the byte at the
\* cursor, the unread bytes ahead and the bytes lookBehind can still return
ProtectedSlots(b) ==
  {o % BufLen(b) :
     o \in {x \in 0..(Len(accepted) - 1) :
              x >= b.globalPos - getAvailableBehind(b)}}

\* slots a fill of k bytes writes, starting at the write position
WrittenSlots(b, k) == {(b.head + i) % BufLen(b) : i \in 0..(k - 1)}

\* C13: fill(data) stores the first min(len(data), capacity - filled) bytes
\* directly after the data written before, drops the rest, overwrites no
\* byte at or ahead of the cursor or visible to lookBehind, and leaves the
\* cursor, globalPosition and the EOF flag alone.
C13_FillAppends ==
  [][lastOp' = "fill" =>
       LET k == Min(Len(arg'), BufLen(buf) - buf.filled)
       IN  /\ accepted' = accepted \o SubSeq(arg', 1, k)
           /\ buf'.filled = buf.filled + k
           /\ \A i \in 1..k :
                buf'.buffer[(buf.head + i - 1) % BufLen(buf)] = arg'[i]
           /\ \A s \in DOMAIN buf.buffer :
                s \notin WrittenSlots(buf, k) =>
                  buf'.buffer[s] = buf.buffer[s]
           /\ WrittenSlots(buf, k) \cap ProtectedSlots(buf) = {}
           /\ buf'.current = buf.current
           /\ buf'.globalPos = buf.globalPos
           /\ buf'.eof = buf.eof]_vars

\* the lookahead really available: stored bytes beyond the cursor byte
RealAhead == Max(0, Len(accepted) - 1 - buf.globalPos)

\* C14: needsRefill() is true exactly when EOF is not marked and the
\* available lookahead is below half of maxLookAhead; it is false once EOF
\* is marked.
C14_NeedsRefill ==
  /\ needsRefill(buf) <=> (~buf.eof /\ 2 * RealAhead < buf.maxLookAhead)
  /\ lastOp = "needsRefill" => ret = needsRefill(buf)
  /\ buf.eof => ~needsRefill(buf)

\* C14 witness: needsRefill() answered true on a buffer that holds data
\* and has been advanced
C14_Witness ==
  /\ lastOp = "needsRefill" /\ ret = TRUE
  /\ buf.globalPos > 0
  /\ buf.filled > 0

\* C15: reset() leaves the buffer in the state of a newly constructed
\* buffer of the same sizes.
C15_ResetIsNew ==
  lastOp = "reset" =>
    /\ buf = NewBuffer(buf.maxLookBehind, buf.maxLookAhead)
    /\ getState(buf).position = 0
    /\ getState(buf).globalPosition = 0
    /\ getState(buf).available = 0
    /\ ~getState(buf).isEOF
    /\ accepted = <<>>

\* C15 witness: a reset has been made
C15_Witness == lastOp = "reset" /\ buf.maxLookBehind > 0

\* C16: once EOF is marked, isEOF stays true through every call but
\* reset, and a second markEOF changes nothing.
C16_EOFSticky ==
  [][(buf.eof /\ lastOp' # "reset") =>
       /\ getState(buf').isEOF
       /\ lastOp' = "markEOF" => buf' = buf]_vars

\* C16 witness: a fill was made after EOF had been marked
C16_Witness == buf.eof /\ lastOp = "fill" /\ Len(arg) > 0

\* ---------------------------------------------- pipeline properties
\* the processing loop stands at a cursor position
AtPosition == pc \in {"loop", "render"}

\* C2: for an input longer than the buffer capacity, with refill left on and
\* a source that does not fail, the byte under the cursor at stream position
\* g is byte g of the input, and the loop does not end before the whole
\* input has passed under the cursor.
C2_InputUnderCursor ==
  (/\ pc \in {"loop", "render", "done"}
   /\ Len(InputBytes(input)) > BufLen(buf)
   /\ options.autoRefill
   /\ ~srcError)
  => /\ (AtPosition /\ buf.globalPos < Len(InputBytes(input)))
          => peek(buf) = InputBytes(input)[buf.globalPos + 1]
     /\ pc = "done" => buf.globalPos >= Len(InputBytes(input))

\* C3: once EOF is marked and the buffered data is consumed, canAdvance()
\* is false and the loop condition fails, so the loop exits.
C3_LoopExits ==
  (pc = "loop" /\ buf.eof /\ buf.globalPos >= Len(accepted))
    => ~LoopCondition(buf)

\* C17: for a processor that returns advance 0 or less, every iteration of
\* the loop moves the cursor forward by at least 1 until EOF, so the same
\* stream position is never processed twice.
C17_NoStall ==
  [][(/\ pc = "render" /\ pulling
      /\ chunks = <<>>
      /\ adv <= 0
      /\ ~buf.eof)
     => buf'.globalPos >= buf.globalPos + 1]_vars

\* the index of the first processor of the list that accepts the cursor
\* value, 0 when none does
FirstMatch(list, byte) ==
  LET m == {i \in 1..Len(list) : byte \in list[i].accepts}
  IN  IF m = {} THEN 0 ELSE CHOOSE i \in m : \A j \in m : i <= j

\* C18: a registration keeps every processor already registered in its
\* place and puts the new one after all processors of greater or equal
\* priority and before all of smaller priority, so the list is in descending
\* priority with equal priorities in registration order; the processor that
\* processes a position is the first of the list whose canProcess is true,
\* and no matching processor has a greater priority.
C18_PriorityOrder ==
  [][/\ \A i, j \in 1..Len(processors') :
          i < j => processors'[i].priority >= processors'[j].priority
     /\ processors' # processors =>
          \E p \in ProcessorPool, k \in 0..Len(processors) :
            /\ processors' = SubSeq(processors, 1, k) \o <<p>>
                               \o SubSeq(processors, k + 1, Len(processors))
            /\ \A i \in 1..k : processors[i].priority >= p.priority
            /\ \A i \in (k + 1)..Len(processors) :
                 processors[i].priority < p.priority
     /\ (pc = "loop" /\ pc' = "render") =>
          LET k == FirstMatch(processors, peek(buf))
          IN  /\ k > 0
              /\ \A j \in 1..Len(processors) :
                   peek(buf) \in processors[j].accepts
                     => processors[j].priority <= processors[k].priority
              /\ peek(buf) # Null =>
                   /\ adv' = processors[k].adv
                   /\ Len(chunks') = processors[k].emits
                   /\ \A i \in 1..Len(chunks') :
                        chunks'[i].type = processors[k].name
     /\ (pc = "loop" /\ FirstMatch(processors, peek(buf)) = 0)
          => pc' # "render"]_vars

\* the priority-20 processor stands before the priority-10 one that also
\* accepts the byte, and the output of the position is the former's
C18_Witness ==
  /\ Len(processors) = 2
  /\ processors[1].name = "one" /\ processors[2].name = "hex"
  /\ pc = "render"
  /\ Len(out) = 1 /\ out[1][2] = "one" /\ out[1][3] = 1

\* C19: when process() throws at a position that is not the last one of the
\* input, the error is not propagated, the cursor moves exactly one position
\* forward, nothing is emitted for the position, and the loop continues.
C19_SkipAndContinue ==
  [][(/\ pc = "loop" /\ pulling
      /\ LoopCondition(buf)
      /\ FirstMatch(processors, peek(buf)) > 0
      /\ peek(buf) \in
           processors[FirstMatch(processors, peek(buf))].throwsOn
      /\ buf.globalPos + 1 < Len(InputBytes(input)))
     => /\ buf'.globalPos = buf.globalPos + 1
        /\ pc' = "loop"
        /\ err' = NoError
        /\ out' = out]_vars

\* C20: the first pull of a processStream call whose format has no renderer
\* ends the call with the error 'No renderer found for format: <format>';
\* no buffer has been created, nothing read from the source or filled,
\* no processor invoked and nothing yielded.
C20_MissingRenderer ==
  [][(pc = "start" /\ pulling /\ renderers[format] = NoRenderer)
     => /\ pc' = "failed"
        /\ err' = [message |-> "No renderer found for format: ",
                   detail |-> format]
        /\ buf' = NoBuffer
        /\ accepted' = <<>>
        /\ srcPos' = 0 /\ ~locked'
        /\ chunks' = <<>> /\ adv' = 0
        /\ out' = <<>>]_vars

C20_Witness ==
  /\ pc = "failed"
  /\ err = RendererError("html")
  /\ Len(InputBytes(input)) > 0
  /\ Len(processors) > 0

\* C21: when a read of the input source rejects during a refill after some
\* output was yielded, processStream ends with the source's error; nothing
\* is yielded by the step, and the per-position recovery does not take the
\* error.
C21_SourceErrorTerminal ==
  [][(pc = "read_refill" /\ pulling /\ out # <<>> /\ srcError')
     => /\ pc' = "failed"
        /\ err' = SourceError
        /\ out' = out
        /\ buf' = buf]_vars

\* what an always-matching processor that emits one chunk per byte and
\* advances by 1 makes of the bytes
RECURSIVE RenderEach(_, _, _)
RenderEach(r, name, bytes) ==
  IF bytes = <<>> THEN <<>>
  ELSE <<renderChunk(r, [type |-> name, content |-> Head(bytes),
                         index |-> 1])>>
         \o RenderEach(r, name, Tail(bytes))

\* C22: with the one-chunk-per-byte processor alone, the outputs of an
\* n-byte in-memory input are at every moment the outputs of its first
\* bytes in input order, never more than n, and exactly n when the loop has
\* ended; once all n are yielded (n = 0 included) the loop condition fails.
C22_OneOutputPerByte ==
  (/\ pc \in {"loop", "render", "done"}
   /\ Len(processors) = 1 /\ processors[1].name = "hex"
   /\ input.kind \in {"string", "bytes"})
  => LET n == Len(InputBytes(input))
         all == RenderEach(renderers[format], "hex", InputBytes(input))
     IN  /\ Len(out) <= n
         /\ out = SubSeq(all, 1, Len(out))
         /\ pc = "done" => Len(out) = n
         /\ (pc = "loop" /\ buf.globalPos >= n) => ~LoopCondition(buf)

RECURSIVE Advanced(_, _)
Advanced(b, j) == IF j = 0 THEN b ELSE advance(Advanced(b, j - 1)).buf

\* C25: when the processor of the position asked for advance k, the step
\* that ends the iteration leaves the buffer as g successful advance()
\* calls leave it, with g <= max(1, k), globalPosition larger by g, and
\* g < max(1, k) only if the call after the g-th would return false.
C25_AdvanceCount ==
  [][(pc = "render" /\ pulling /\ chunks = <<>>)
     => \E g \in 0..Max(1, adv) :
          /\ buf' = Advanced(buf, g)
          /\ buf'.globalPos = buf.globalPos + g
          /\ \A j \in 0..(g - 1) : canAdvance(Advanced(buf, j))
          /\ g < Max(1, adv) => ~canAdvance(buf')]_vars

\* a processor asking for advance 2 has processed position 0 and the
\* cursor stands at position 2
C25_Witness ==
  /\ pc = "loop" /\ adv = 2
  /\ Len(processors) = 1 /\ processors[1].name = "skip"
  /\ Len(InputBytes(input)) >= 3 /\ InputBytes(input)[1] = 0
  /\ InputBytes(input)[2] = 1
  /\ buf.globalPos = 2
  /\ ~buf.eof

\* C26: when no registered processor accepts the cursor position and EOF
\* is not marked, the iteration yields nothing, moves the cursor forward by
\* exactly 1 and the loop goes on (with a refill first if one is due).
C26_UnmatchedAdvances ==
  [][(/\ pc = "loop" /\ pulling
      /\ LoopCondition(buf)
      /\ FirstMatch(processors, peek(buf)) = 0
      /\ ~buf.eof)
     => /\ buf'.globalPos = buf.globalPos + 1
        /\ out' = out
        /\ pc' \in {"loop", "read_refill"}]_vars

\* C27: a refill starts only at the end of an iteration, after its advance
\* calls, and only if needsRefill() is true and autoRefill is not disabled;
\* it goes on reading only while needsRefill() is true; the source is read
\* nowhere else after the initial fill, and never once it has signalled its
\* end (EOF marked); an in-memory input is filled once.
C27_RefillOnlyWhenNeeded ==
  [][/\ pc' = "read_refill"
          => needsRefill(buf') /\ options.autoRefill /\ ~buf'.eof
     /\ (pc # "read_refill" /\ pc' = "read_refill")
          => /\ pc \in {"loop", "render"}
             /\ chunks = <<>>
             /\ \E g \in 0..Max(1, adv) : buf' = Advanced(buf, g)
     /\ (srcPos' # srcPos \/ accepted' # accepted)
          => /\ pc \in {"start", "read_init", "read_refill"}
             /\ ~buf.eof
     /\ (pc \in {"loop", "render"} /\ ~options.autoRefill)
          => pc' \in {"loop", "render", "done"}]_vars

\* a refill is under way in the middle of a stream
C27_Witness ==
  /\ pc = "read_refill"
  /\ buf.globalPos >= 1
  /\ 1 <= srcPos /\ srcPos < Len(input.chunks)

\* C28 as stated: advance() called with no byte stored beyond the cursor
\* and EOF not marked returns false and changes nothing of the buffer; a
\* fill of at least one byte after such a call makes advance() possible.
C28_FailedAdvanceNoOp ==
  [][/\ (lastOp' = "advance" /\ RealAhead = 0 /\ ~buf.eof)
          => ret' = FALSE /\ buf' = buf /\ accepted' = accepted
     /\ (/\ lastOp = "advance" /\ ret = FALSE /\ ~buf.eof
         /\ lastOp' = "fill" /\ Len(arg') > 0)
          => canAdvance(buf')]_vars

\* C28 amended: advance() called with no byte stored beyond the cursor and
\* EOF not marked returns false and changes nothing of the buffer; a fill
\* after such a call that stores a byte beyond the cursor makes advance()
\* possible (a fill into the empty buffer that stores one byte only gives
\* the cursor its byte).
C28_FailedAdvanceThenFillAhead ==
  [][/\ (lastOp' = "advance" /\ RealAhead = 0 /\ ~buf.eof)
          => ret' = FALSE /\ buf' = buf /\ accepted' = accepted
     /\ (/\ lastOp = "advance" /\ ret = FALSE /\ ~buf.eof
         /\ lastOp' = "fill"
         /\ Len(accepted') - 1 - buf'.globalPos > 0)
          => /\ canAdvance(buf')
             /\ advance(buf').ret
             /\ advance(buf').buf.globalPos = buf.globalPos + 1]_vars

\* in the middle of a stream, with bytes retained behind the cursor,
\* advance() has just failed at the last byte stored
C28_Witness ==
  /\ lastOp = "advance" /\ ret = FALSE
  /\ ~buf.eof
  /\ buf.globalPos >= 1
  /\ buf.filled >= 2
  /\ Len(accepted) = buf.globalPos + 1

\* the calls a processor and createContext make to read the buffer
ReadCalls ==
  {"peek", "lookAhead", "lookBehind", "getState", "canAdvance",
   "needsRefill", "createContext"}

\* C29: peek, lookAhead, lookBehind, getState, canAdvance, needsRefill and
\* the building of the context leave the buffer (write position, compaction
\* bound, cursor, globalPosition, filled, EOF flag, content) as it was, and
\* the context's isEOF, needsRefill, canAdvance and position.offset are the
\* buffer's values at that moment.
C29_ReadsArePure ==
  [][lastOp' \in ReadCalls
     => /\ buf' = buf
        /\ accepted' = accepted
        /\ lastOp' = "createContext"
             => /\ ret'.isEOF = buf.eof
                /\ ret'.needsRefill
                     = (~buf.eof
                        /\ 2 * getAvailableAhead(buf) < buf.maxLookAhead)
                /\ ret'.canAdvance = (getAvailableAhead(buf) > 0 \/ buf.eof)
                /\ ret'.position.offset = buf.globalPos
                /\ ret'.bufferState.globalPosition = buf.globalPos
                /\ ret'.buffer = buf]_vars

\* a context built in the middle of a stream
C29_Witness ==
  /\ lastOp = "createContext"
  /\ ret.position.offset >= 1
  /\ ret.canAdvance /\ ~ret.needsRefill /\ ~ret.isEOF
  /\ ret.buffer = buf

\* C30: while the consumer is not pulling (between a yield and the next
\* pull, and after the last pull) nothing is read from the source, filled,
\* advanced or processed and nothing is yielded; no reader lock is held
\* then, and none is held outside a fill, also after a read that failed.
C30_WorkOnlyWhilePulling ==
  [][/\ ~pulling
          => /\ buf' = buf /\ accepted' = accepted
             /\ srcPos' = srcPos /\ srcError' = srcError
             /\ chunks' = chunks /\ adv' = adv
             /\ out' = out
             /\ locked' = locked
     /\ ~pulling' => ~locked'
     /\ pc' \notin {"read_init", "read_refill"} => ~locked']_vars

\* the consumer holds an output of a stream that is not at its end and has
\* not asked for the next one
C30_Witness ==
  /\ ~pulling /\ pc = "render"
  /\ input.kind = "stream"
  /\ 1 <= srcPos /\ srcPos < Len(input.chunks)
  /\ ~buf.eof
  /\ Len(out) >= 1
  /\ ~locked

\* --------------------------------------- capacity and refill properties
\* C33: whenever the buffer holds data, getState().available equals
\* canLookBehind + 1 + canLookAhead, and the write position stands on the
\* cursor only when the buffer is empty or completely full.
C33_AvailableAgrees ==
  /\ buf.filled > 0
       => getState(buf).available
            = getState(buf).canLookBehind + 1 + getState(buf).canLookAhead
  /\ buf.head = buf.current => buf.filled \in {0, BufLen(buf)}

\* C34: for every configuration, zero sizes included, in every state where
\* EOF is not marked, advance() succeeds or fill can store one more byte.
C34_NeverFullAndStuck ==
  ~buf.eof => (canAdvance(buf) \/ buf.filled < BufLen(buf))

\* C35 as stated: whenever needsRefill() is true the buffer has a free
\* slot, and a fill of a non-empty array made then stores at least one byte
\* and strictly increases the available lookahead.
C35_RefillIncreasesAhead ==
  [][/\ needsRefill(buf) => buf.filled < BufLen(buf)
     /\ (needsRefill(buf) /\ lastOp' = "fill" /\ Len(arg') > 0)
          => /\ Len(accepted') > Len(accepted)
             /\ getAvailableAhead(buf') > getAvailableAhead(buf)]_vars

\* C35 amended: whenever needsRefill() is true the buffer has a free slot,
\* and a fill of a non-empty array made then stores at least one byte; it
\* strictly increases the available lookahead when the buffer held data
\* before, or when it stores more than one byte (the first byte stored in
\* an empty buffer is the cursor's).
C35_RefillStoresWithRoom ==
  [][/\ needsRefill(buf) => buf.filled < BufLen(buf)
     /\ (needsRefill(buf) /\ lastOp' = "fill" /\ Len(arg') > 0)
          => /\ Len(accepted') > Len(accepted)
             /\ (buf.filled > 0 \/ Len(accepted') > Len(accepted) + 1)
                  => getAvailableAhead(buf') > getAvailableAhead(buf)
             /\ buf.filled = 0
                  => getAvailableAhead(buf')
                       = Len(accepted') - Len(accepted) - 1]_vars

\* a fill has just stored the one byte that was missing ahead of the
\* cursor, in the middle of a stream (before it the lookahead was 0 of 2,
\* so needsRefill() was true)
C35_Witness ==
  /\ lastOp = "fill" /\ Len(arg) > 0
  /\ ~buf.eof
  /\ buf.maxLookAhead = 2
  /\ getAvailableAhead(buf) = 1
  /\ buf.globalPos >= 2
  /\ Len(accepted) = buf.globalPos + 2

\* ------------------------------------------- further pipeline properties
\* s is a prefix of t
IsPrefix(s, t) == Len(s) <= Len(t) /\ s = SubSeq(t, 1, Len(s))

\* C36: for a string or Uint8Array input the bytes stored in the buffer
\* are at every moment a prefix of the input's bytes; bytes are stored by
\* the initial fill only, which marks EOF with it, and no step after it
\* stores anything.
C36_InMemoryFilledOnce ==
  [][input'.kind \in {"string", "bytes"}
     => /\ IsPrefix(accepted', InputBytes(input'))
        /\ accepted' # accepted
             => /\ pc = "start"
                /\ accepted = <<>>
                /\ buf'.eof
        /\ pc \notin {"idle", "start"} => accepted' = accepted]_vars

\* an in-memory input longer than the buffer is being processed: the cursor
\* has advanced, input bytes are left unstored and the lookahead is below
\* half of maxLookAhead
C36_Witness ==
  /\ input.kind = "bytes"
  /\ pc = "loop"
  /\ options.autoRefill
  /\ buf.globalPos >= 1
  /\ Len(accepted) < Len(InputBytes(input))
  /\ 2 * getAvailableAhead(buf) < buf.maxLookAhead

\* C32: a registerRenderer call puts its renderer in the place of the one
\* its format had and leaves the renderers of the other formats alone;
\* nothing else changes the renderers; and every output of a processStream
\* call is rendered by the renderer the format has then, which is the one
\* registered last for it.
C32_LastRendererWins ==
  [][/\ lastOp' = "registerRenderer" => renderers'[arg'.format] = arg'
     /\ renderers' # renderers
          => /\ pc = "idle"
             /\ lastOp' = "registerRenderer"
             /\ \A f \in Formats \ {arg'.format} :
                  renderers'[f] = renderers[f]
     /\ out' # out
          => /\ renderers' = renderers
             /\ out' = Append(out, renderChunk(renderers[format],
                                               Head(chunks)))]_vars

\* "h3" was registered for "html" after a renderer for "hex" had been
\* registered, the renderer of "hex" is still there, and an "html" run has
\* yielded an output of "h3"
C32_Witness ==
  /\ lastOp = "registerRenderer" /\ arg.tag = "h3"
  /\ renderers["hex"].tag = "x1"
  /\ format = "html"
  /\ Len(out) >= 1 /\ out[1][1] = "h3"

\* C37: when renderChunk throws for a chunk of a position, processStream
\* does not end with the error, the outputs yielded so far stay as they
\* are and nothing more is yielded for the position, the chunks left are
\* not rendered, the cursor moves forward by exactly 1 whatever advance the
\* processor asked for, and the loop goes on.
C37_RendererErrorSkips ==
  [][(/\ pc = "render" /\ pulling
      /\ chunks # <<>>
      /\ renderThrows(renderers[format], Head(chunks)))
     => /\ err' = NoError
        /\ out' = out
        /\ chunks' = <<>>
        /\ buf'.globalPos = buf.globalPos + 1
        /\ pc' = "loop"]_vars

\* what call A has yielded, where it stands and whether its source failed
OutA == IF Running = "A" THEN out ELSE other.out
PcA == IF Running = "A" THEN pc ELSE other.pc
SrcErrorA == IF Running = "A" THEN srcError ELSE other.srcError

\* call A, made again and interleaved with call B, yields what it yielded
\* alone (sources that fail apart): equal as far as both have come, and the
\* same sequence when both have ended
SameAsAlone ==
  (first.ran /\ ~first.srcError /\ ~SrcErrorA)
  => /\ \A i \in 1..Min(Len(OutA), Len(first.out)) : OutA[i] = first.out[i]
     /\ (first.complete /\ PcA = "done") => OutA = first.out
     /\ first.complete => Len(OutA) <= Len(first.out)

\* C31: with the two calls made on different pipelines, a step of one call
\* leaves the other call and its pipeline (processors, renderers, buffer
\* options, buffer) as they are, a call resumes with its own pipeline, and
\* call A yields what it yields alone.
C31_InstancesIndependent ==
  [][~other.shared
     => /\ other'.who = other.who => other' = other
        /\ other'.who # other.who
             => /\ processors' = other.processors
                /\ renderers' = other.renderers
                /\ bufferOptions' = other.bufferOptions
                /\ other'.processors = processors
                /\ other'.renderers = renderers
        /\ SameAsAlone']_vars

\* both calls, on pipelines with different processors, are in the middle of
\* their inputs at the same time, each with an output yielded
C31_Witness ==
  /\ ~other.shared
  /\ first.ran /\ first.complete
  /\ other.processors # processors
  /\ pc = "render" /\ other.pc = "render"
  /\ Len(out) >= 1 /\ Len(other.out) >= 1
  /\ buf.globalPos >= 1
  /\ input # other.input

\* C38: with the two calls made on the same pipeline, a step of one call
\* leaves the buffer of the other (cursor, globalPosition, EOF flag, bytes)
\* and the bytes stored in it as they are, a call resumes with the buffer as
\* it left it, and call A yields what it yields alone.
C38_RunsHaveOwnBuffers ==
  [][other.shared
     => /\ other'.who = other.who
             => /\ other'.buf = other.buf
                /\ other'.accepted = other.accepted
        /\ other'.who # other.who
             => /\ buf' = other.buf /\ accepted' = other.accepted
                /\ other'.buf = buf /\ other'.accepted = accepted
        /\ SameAsAlone']_vars

\* both calls, made on one pipeline, are in the middle of their inputs at
\* the same time, with buffers that differ
C38_Witness ==
  /\ other.shared
  /\ first.ran /\ first.complete
  /\ pc = "render" /\ other.pc = "render"
  /\ Len(out) >= 1 /\ Len(other.out) >= 1
  /\ buf.globalPos >= 1 /\ other.buf.globalPos = 0
  /\ buf # other.buf
====
